---- MODULE Spec2Model ----
(***************************************************************************)
(* Model of pyfar's .far archive engine (pyfar/io/io.py: read, write).     *)
(*                                                                         *)
(* A .far file is a zip archive whose entries are named by slash-separated *)
(* paths  <object-name>/.../<$type-tag>.  write() classifies every keyword *)
(* object, encodes it into an in-memory zip buffer and writes the buffer   *)
(* to  Path(filename).with_suffix('.far');  read() lists the entries,      *)
(* decodes every entry whose path contains '/$' and unpacks the entry of   *)
(* the builtin wrapper.                                                    *)
(*                                                                         *)
(* The codec module (pyfar/io/_codec.py) is not part of the sources at     *)
(* hand; its operators are modelled from the written specification and     *)
(* are marked as such where they are defined.                              *)
(***************************************************************************)
EXTENDS Integers, Sequences, FiniteSets, TLC

VARIABLES
    fs,     \* file system: path (sequence of characters) -> file content
    ws,     \* the objects of the caller: name -> value
    ret,    \* outcome of the latest call that was completed
    calls   \* the calls in progress: process -> position and local variables

vars == <<fs, ws, ret, calls>>

(***************************************************************************)
(* Bounds.                                                                 *)
(***************************************************************************)
\* largest number of keyword objects passed to one write call
MaxObjs == 3
\* largest number of entries of an archive that was not produced by write
MaxEntries == 2
\* largest number of keyword objects of a write call that is followed step
\* by step
MaxWriteObjs == 2
\* number of processes that call read at the same time
MaxProcs == 2
\* number of style names matplotlib can know
MaxStyles == 4
\* largest number of samples of a signal, and largest sample index in a
\* length argument
MaxSamples == 4

(***************************************************************************)
(* Path segments.  A zip entry name is a '/'-joined string; it is modelled *)
(* as the sequence of its segments.  A segment records whether its first   *)
(* character is '$' and the text that follows.                             *)
(***************************************************************************)
Ord(s) == [d |-> FALSE, id |-> s]
Tag(s) == [d |-> TRUE, id |-> s]

\* the text of a segment without its first character (hint[1:])
DropFirst(seg) ==
    IF seg.d THEN seg.id
    ELSE CASE seg.id = "x" -> ""
           [] seg.id = "y" -> ""
           [] seg.id = "data" -> "ata"
           [] seg.id = "state" -> "tate"
           [] seg.id = "builtin_wrapper" -> "uiltin_wrapper"
           [] OTHER -> ""

\* object names: "x", "y", "builtin_wrapper" and "x/data"
NameX == <<Ord("x")>>
NameY == <<Ord("y")>>
NameWrapper == <<Ord("builtin_wrapper")>>
NameSlash == <<Ord("x"), Ord("data")>>
Names == {NameX, NameY, NameWrapper, NameSlash}

(***************************************************************************)
(* Values.                                                                 *)
(***************************************************************************)
Five == [cat |-> "builtin", kind |-> "int", val |-> 5]
Tup == [cat |-> "builtin", kind |-> "tuple", items |-> <<Five, Five>>]
ArrA == [cat |-> "ndarray", dtype |-> "float64", shape |-> <<2>>,
         data |-> <<1, 2>>]
Flt == [cat |-> "pyfar", type |-> "Filter",
        fields |-> <<<<"state", Tup>>>>]
Dict == [cat |-> "other", type |-> "dict"]

\* a value of a composite kind that is a rectangular numeric buffer as well
FltArr == [cat |-> "pyfar", type |-> "Filter",
           fields |-> <<<<"state", Tup>>>>,
           dtype |-> "float64", shape |-> <<2>>, data |-> <<1, 2>>]

Values == {Tup, ArrA, Flt, Dict}

(***************************************************************************)
(* Codec (pyfar/io/_codec.py), modelled from the written specification.    *)
(***************************************************************************)
Err(e) == [cat |-> "error", exc |-> e]
IsErr(v) == v.cat = "error"

\* registered composite kinds and the fields their decode requires
PyfarTypes == {"Signal", "Filter", "BuiltinsWrapper"}
RequiredFields(t) ==
    CASE t = "Signal" -> <<"data", "state">>
      [] t = "Filter" -> <<"state">>
      [] OTHER -> <<>>

Dtypes == {"int8", "int16", "int32", "int64", "uint8", "uint16", "uint32",
           "uint64", "float32", "float64", "complex64", "complex128"}

\* applied to an object (write)
_is_pyfar_type(obj) == obj.cat = "pyfar" /\ obj.type \in PyfarTypes
\* applied to the name of a type (read)
_is_pyfar_type_name(s) == s \in PyfarTypes
_is_numpy_type(obj) == obj.cat = "ndarray" \/ "dtype" \in DOMAIN obj
_supported_builtin_types ==
    {"bool", "bytes", "complex", "float", "frozenset", "int", "list", "set",
     "str", "tuple"}

\* type(obj) / type(obj).__name__
TypeOf(obj) ==
    CASE obj.cat = "builtin" -> obj.kind
      [] obj.cat = "ndarray" -> "ndarray"
      [] OTHER -> obj.type

RECURSIVE Prod(_)
Prod(shape) == IF shape = <<>> THEN 1 ELSE Head(shape) * Prod(Tail(shape))

\* ArrayCodec: header (element type, shape) and raw payload
_encode_ndarray(a) ==
    [fmt |-> "npy", dtype |-> a.dtype, shape |-> a.shape, raw |-> a.data]
DecodeArrayPayload(p) ==
    IF p.fmt # "npy" THEN Err("ValueError")
    ELSE IF p.dtype \notin Dtypes \/ Len(p.raw) # Prod(p.shape)
         THEN Err("ValueError")
         ELSE [cat |-> "ndarray", dtype |-> p.dtype, shape |-> p.shape,
               data |-> p.raw]

\* GenericCodec: the structured-text tree of a builtin value.  Sequences are
\* native; every other collection kind is wrapped in a tagged envelope.
RECURSIVE EncodeGeneric(_)
EncodeGeneric(v) ==
    CASE v.kind = "int" -> [j |-> "num", v |-> v.val]
      [] v.kind = "list" ->
            [j |-> "arr",
             items |-> [i \in DOMAIN v.items |-> EncodeGeneric(v.items[i])]]
      [] OTHER ->
            [j |-> "obj", kind |-> v.kind,
             items |-> [i \in DOMAIN v.items |-> EncodeGeneric(v.items[i])]]

RECURSIVE DecodeGeneric(_)
DecodeItems(t, kind) ==
    LET its == [i \in DOMAIN t.items |-> DecodeGeneric(t.items[i])]
    IN IF \E i \in DOMAIN its : IsErr(its[i]) THEN Err("TypeError")
       ELSE [cat |-> "builtin", kind |-> kind, items |-> its]
DecodeGeneric(t) ==
    CASE t.j = "num" -> [cat |-> "builtin", kind |-> "int", val |-> t.v]
      [] t.j = "arr" -> DecodeItems(t, "list")
      [] t.j = "obj" /\ t.kind \in {"tuple", "set", "frozenset"} ->
            DecodeItems(t, t.kind)
      [] OTHER -> Err("TypeError")

(***************************************************************************)
(* Zip archive: a sequence of entries  [path, payload].  zipfile keeps     *)
(* entries in the order they were written and resolves a name to the last  *)
(* entry written under it.                                                 *)
(***************************************************************************)
Entry(path, payload) == [path |-> path, payload |-> payload]

HasEntry(entries, path) == \E i \in DOMAIN entries : entries[i].path = path
ZipRead(entries, path) ==
    LET i == CHOOSE k \in DOMAIN entries :
                 /\ entries[k].path = path
                 /\ \A m \in DOMAIN entries :
                        entries[m].path = path => m <= k
    IN entries[i].payload

RECURSIVE Concat(_)
Concat(ss) == IF ss = <<>> THEN <<>> ELSE Head(ss) \o Concat(Tail(ss))

\* CompositeCodec, encode: the entries of a composite stored under `path`:
\* one nested entry per array or composite field, whose path extends the
\* parent path with the field name before the type tag, then the entry of
\* the composite itself holding its generic fields.
RECURSIVE _encode_object_json_aided(_, _)
_encode_object_json_aided(obj, path) ==
    LET Child(f) ==
            IF _is_pyfar_type(f[2])
            THEN _encode_object_json_aided(f[2], path \o <<Ord(f[1])>>)
            ELSE IF _is_numpy_type(f[2])
            THEN <<Entry(path \o <<Ord(f[1]), Tag(TypeOf(f[2]))>>,
                         _encode_ndarray(f[2]))>>
            ELSE <<>>
        IsGeneric(f) == f[2].cat = "builtin"
        gen == SelectSeq(obj.fields, IsGeneric)
    IN Concat([i \in DOMAIN obj.fields |-> Child(obj.fields[i])])
       \o <<Entry(path \o <<Tag(obj.type)>>,
                  [fmt |-> "json",
                   fields |-> [i \in DOMAIN gen |->
                                  <<gen[i][1], EncodeGeneric(gen[i][2])>>]])>>

\* the numpy branch of write: _encode({'$<type name>': obj}, name, zip_file)
_encode(obj, path) ==
    <<Entry(path \o <<Tag(TypeOf(obj))>>, _encode_ndarray(obj))>>

_decode_ndarray(path, entries) ==
    IF ~HasEntry(entries, path) THEN Err("KeyError")
    ELSE DecodeArrayPayload(ZipRead(entries, path))

\* CompositeCodec, decode: the object stored under `prefix` with type tag
\* `hint`.  The child entries under the composite's path are resolved into
\* the field mapping before the composite itself is built; a missing entry,
\* a missing required field or a malformed child fails.
RECURSIVE _decode_object_json_aided(_, _, _)
_decode_object_json_aided(prefix, hint, entries) ==
    LET path == prefix \o <<hint>>
        n == Len(prefix)
        t == DropFirst(hint)
        own == ZipRead(entries, path)
        IsChild(e) == /\ Len(e.path) = n + 2
                      /\ SubSeq(e.path, 1, n) = prefix
                      /\ ~e.path[n + 1].d
                      /\ e.path[n + 2].d
        ChildValue(e) ==
            IF e.path[n + 2] = Tag("ndarray")
            THEN DecodeArrayPayload(e.payload)
            ELSE IF _is_pyfar_type_name(e.path[n + 2].id)
            THEN _decode_object_json_aided(
                     SubSeq(e.path, 1, n + 1), e.path[n + 2], entries)
            ELSE Err("TypeError")
        gen == [i \in DOMAIN own.fields |->
                   <<own.fields[i][1], DecodeGeneric(own.fields[i][2])>>]
        kids == SelectSeq(entries, IsChild)
        HasField(f) == \/ \E i \in DOMAIN gen : gen[i][1] = f
                       \/ \E i \in DOMAIN kids : kids[i].path[n + 1].id = f
        FieldValue(f) ==
            IF \E i \in DOMAIN kids : kids[i].path[n + 1].id = f
            THEN ChildValue(kids[CHOOSE i \in DOMAIN kids :
                                     kids[i].path[n + 1].id = f])
            ELSE gen[CHOOSE i \in DOMAIN gen : gen[i][1] = f][2]
        req == RequiredFields(t)
    IN IF ~HasEntry(entries, path) THEN Err("KeyError")
       ELSE IF own.fmt # "json" THEN Err("ValueError")
       ELSE IF \E i \in DOMAIN gen : IsErr(gen[i][2]) THEN Err("TypeError")
       ELSE IF t = "BuiltinsWrapper"
       THEN [cat |-> "wrapper",
             map |-> [k \in {gen[i][1] : i \in DOMAIN gen} |->
                         gen[CHOOSE i \in DOMAIN gen : gen[i][1] = k][2]]]
       ELSE IF \E i \in DOMAIN req : ~HasField(req[i]) THEN Err("KeyError")
       ELSE IF \E i \in DOMAIN req : IsErr(FieldValue(req[i]))
       THEN Err("ValueError")
       ELSE [cat |-> "pyfar", type |-> t,
             fields |-> [i \in DOMAIN req |-> <<req[i], FieldValue(req[i])>>]]

\* codec.BuiltinsWrapper(): the aggregate of the builtin objects of a call
BuiltinsWrapper(pairs) ==
    [cat |-> "pyfar", type |-> "BuiltinsWrapper", fields |-> pairs]

(***************************************************************************)
(* File names and the file system.                                         *)
(***************************************************************************)
FarSuffix == <<".", "f", "a", "r">>

\* PurePath.suffix: the part of the name from its last dot on, unless that
\* dot is the first or the last character of the name
Suffix(name) ==
    LET dots == {i \in DOMAIN name : name[i] = "."}
        last == CHOOSE i \in dots : \A k \in dots : k <= i
    IN IF dots = {} THEN <<>>
       ELSE IF 1 < last /\ last < Len(name)
            THEN SubSeq(name, last, Len(name))
            ELSE <<>>

\* pathlib.Path(filename).with_suffix('.far')
with_suffix(name) ==
    SubSeq(name, 1, Len(name) - Len(Suffix(name))) \o FarSuffix

\* "d", "d.t" and "d.far"
Filenames == { <<"d">>, <<"d", ".", "t">>, <<"d">> \o FarSuffix }

\* the paths the file system is observed at: "d.far" and "d.t.far"
Paths == { <<"d">> \o FarSuffix, <<"d", ".", "t">> \o FarSuffix }

Absent == [kind |-> "absent"]
\* a file holding a proper prefix, possibly of length zero, of an archive
Truncated == [kind |-> "truncated"]
ZipFile(compression, entries) ==
    [kind |-> "zip", compression |-> compression, entries |-> entries]

\* a valid archive written by an earlier run
OldFile == ZipFile("DEFLATED", _encode(ArrA, <<Ord("old")>>))

(***************************************************************************)
(* write(filename, compress=False, **objs)                                 *)
(***************************************************************************)
\* compression = zipfile.ZIP_STORED if compress else zipfile.ZIP_DEFLATED
Compression(compress) == IF compress THEN "STORED" ELSE "DEFLATED"

\* WriteStep with the final else branch lost: an object that matches no test
\* is skipped
WriteStepSkipsUnsupported(acc, name, obj) ==
    IF _is_pyfar_type(obj)
    THEN [acc EXCEPT !.entries = @ \o _encode_object_json_aided(obj, name)]
    ELSE IF _is_numpy_type(obj)
    THEN [acc EXCEPT !.entries = @ \o _encode(obj, name)]
    ELSE IF TypeOf(obj) \in _supported_builtin_types /\ obj.cat = "builtin"
    THEN [acc EXCEPT !.wrapper = @ \o <<<<name, obj>>>>]
    ELSE acc

\* WriteStep encoding the wrapper inside the loop, once per builtin object,
\* instead of once after the loop
WriteStepWrapsEach(acc, name, obj) ==
    IF _is_pyfar_type(obj)
    THEN [acc EXCEPT !.entries = @ \o _encode_object_json_aided(obj, name)]
    ELSE IF _is_numpy_type(obj)
    THEN [acc EXCEPT !.entries = @ \o _encode(obj, name)]
    ELSE IF TypeOf(obj) \in _supported_builtin_types /\ obj.cat = "builtin"
    THEN [acc EXCEPT !.entries = @ \o _encode_object_json_aided(
                         BuiltinsWrapper(<<<<name, obj>>>>), NameWrapper)]
    ELSE [acc EXCEPT !.exc = "TypeError", !.msg = TypeOf(obj)]

\* WriteStep with the array test made before the composite test
WriteStepArrayFirst(acc, name, obj) ==
    IF _is_numpy_type(obj)
    THEN [acc EXCEPT !.entries = @ \o _encode(obj, name)]
    ELSE IF _is_pyfar_type(obj)
    THEN [acc EXCEPT !.entries = @ \o _encode_object_json_aided(obj, name)]
    ELSE IF TypeOf(obj) \in _supported_builtin_types /\ obj.cat = "builtin"
    THEN [acc EXCEPT !.wrapper = @ \o <<<<name, obj>>>>]
    ELSE [acc EXCEPT !.exc = "TypeError", !.msg = TypeOf(obj)]

\* One pass of the loop over objs.items(): `entries` are the entries written
\* to the zip buffer so far, `wrapper` the builtin objects collected so far.
WriteStep(acc, name, obj) ==
    IF _is_pyfar_type(obj)
    THEN [acc EXCEPT !.entries = @ \o _encode_object_json_aided(obj, name)]
    ELSE IF _is_numpy_type(obj)
    THEN [acc EXCEPT !.entries = @ \o _encode(obj, name)]
    ELSE IF TypeOf(obj) \in _supported_builtin_types /\ obj.cat = "builtin"
    THEN [acc EXCEPT !.wrapper = @ \o <<<<name, obj>>>>]
    ELSE [acc EXCEPT !.exc = "TypeError", !.msg = TypeOf(obj)]

RECURSIVE WriteLoop(_, _, _)
WriteLoop(objs, i, acc) ==
    IF i > Len(objs) \/ acc.exc # "none" THEN acc
    ELSE WriteLoop(objs, i + 1, WriteStep(acc, objs[i][1], objs[i][2]))

\* the builtin wrapper is encoded after the loop, if it holds anything
WrapperEntries(wrapper) ==
    IF Len(wrapper) > 0
    THEN _encode_object_json_aided(BuiltinsWrapper(wrapper), NameWrapper)
    ELSE <<>>

\* the content of zip_buffer when the with-block is left, or the exception
\* raised inside it
ZipBuffer(objs) ==
    LET acc == WriteLoop(objs, 1,
                   [exc |-> "none", msg |-> "", entries |-> <<>>,
                    wrapper |-> <<>>])
    IN IF acc.exc # "none" THEN acc
       ELSE [acc EXCEPT !.entries = @ \o WrapperEntries(acc.wrapper)]

\* with open(filename, 'wb') as f: f.write(zip_buffer.getvalue())
\* Opening truncates the file to length zero; the write then completes, or
\* fails before all bytes are written.
IoOutcomes == {"ok", "fail"}
Flush(old, new, io) == IF io = "ok" THEN new ELSE Truncated

(***************************************************************************)
(* read(filename)                                                          *)
(***************************************************************************)
\* '/$' in path
HasSlashDollar(path) == \E i \in 2..Len(path) : path[i].d

\* ZipOpen of a reader that lists stored entries only
ZipOpenStoredOnly(file) ==
    IF file.compression = "STORED" THEN file.entries ELSE <<>>

\* zipfile.ZipFile(zip_buffer): the entries, whatever their compression
ZipOpen(file) == file.entries

\* the body of the loop over obj_names_hints for one entry path
ReadEntry(path, entries) ==
    LET name == path[1]
        hint == path[2]
    IN IF _is_pyfar_type_name(DropFirst(hint))
       THEN _decode_object_json_aided(<<name>>, hint, entries)
       ELSE IF hint = Tag("ndarray")
       THEN _decode_ndarray(<<name, hint>>, entries)
       ELSE Err("TypeError")

RECURSIVE ReadLoop(_, _, _)
ReadLoop(entries, i, coll) ==
    IF i > Len(entries) THEN [exc |-> "none", value |-> coll]
    ELSE IF ~HasSlashDollar(entries[i].path)
    THEN ReadLoop(entries, i + 1, coll)
    ELSE LET obj == ReadEntry(entries[i].path, entries)
         IN IF IsErr(obj) THEN [exc |-> obj.exc, value |-> <<>>]
            ELSE ReadLoop(entries, i + 1,
                          (<<entries[i].path[1]>> :> obj) @@ coll)

\* if 'builtin_wrapper' in collection: merge its items, then pop it
Unwrap(coll) ==
    IF NameWrapper \notin DOMAIN coll THEN [exc |-> "none", value |-> coll]
    ELSE IF coll[NameWrapper].cat # "wrapper"
    THEN [exc |-> "AttributeError", value |-> <<>>]
    ELSE LET merged == coll[NameWrapper].map @@ coll
         IN [exc |-> "none",
             value |-> [k \in DOMAIN merged \ {NameWrapper} |-> merged[k]]]

\* the code after the loop runs only if the loop raised nothing
AfterLoop(r) == IF r.exc # "none" THEN r ELSE Unwrap(r.value)

\* the outcome of read on a file
read(file) ==
    IF file.kind = "absent"
    THEN [exc |-> "FileNotFoundError", value |-> <<>>]
    ELSE IF file.kind # "zip" THEN [exc |-> "BadZipFile", value |-> <<>>]
    ELSE AfterLoop(ReadLoop(ZipOpen(file), 1, <<>>))

(***************************************************************************)
(* State machine: one process calls write and read on the objects `ws`.    *)
(***************************************************************************)
Workspaces ==
    UNION {[S -> Values] : S \in {T \in SUBSET Names : Cardinality(T) <= MaxObjs}}

\* the orders in which the objects of w can be passed as keyword arguments
Orders(w) ==
    {o \in [1..Cardinality(DOMAIN w) -> DOMAIN w] :
        \A i, k \in DOMAIN o : o[i] = o[k] => i = k}
Objs(w, o) == [i \in DOMAIN o |-> <<o[i], w[o[i]]>>]

\* no call is in progress
Procs == 1..MaxProcs
Idle == [pc |-> "idle"]
NoCalls == [p \in Procs |-> Idle]

Init ==
    /\ ws \in Workspaces
    /\ fs \in {[p \in Paths |-> Absent],
               [p \in Paths |-> IF p = with_suffix(<<"d">>) THEN OldFile
                                ELSE Absent]}
    /\ ret = [op |-> "none"]
    /\ calls = NoCalls

\* buf is ZipBuffer of the objects in the order they were passed
Write(filename, compress, buf, io) ==
    LET path == with_suffix(filename)
    IN /\ IF buf.exc # "none"
          THEN /\ fs' = fs
               /\ ret' = [op |-> "write", filename |-> filename,
                          compress |-> compress, exc |-> buf.exc,
                          msg |-> buf.msg]
          ELSE /\ fs' = [fs EXCEPT ![path] =
                            Flush(@, ZipFile(Compression(compress),
                                             buf.entries), io)]
               /\ ret' = [op |-> "write", filename |-> filename,
                          compress |-> compress,
                          exc |-> IF io = "ok" THEN "none" ELSE "OSError",
                          msg |-> ""]
       /\ UNCHANGED <<ws, calls>>

Returned(filename, r) ==
    [op |-> "read", filename |-> filename, exc |-> r.exc, value |-> r.value]

Read(filename) ==
    /\ ret' = Returned(filename, read(fs[with_suffix(filename)]))
    /\ UNCHANGED <<fs, ws, calls>>

\* a write call of the objects encoded into buf, to any file name
WriteAny(buf, io) ==
    \E f \in Filenames, c \in BOOLEAN : Write(f, c, buf, io)

\* A failing flush leaves the same file whatever the order of the objects
\* was, so one order stands for all of them there.
Next ==
    \/ \E o \in Orders(ws) : WriteAny(ZipBuffer(Objs(ws, o)), "ok")
    \/ WriteAny(ZipBuffer(Objs(ws, CHOOSE o \in Orders(ws) : TRUE)), "fail")
    \/ \E f \in Filenames : Read(f)

Spec == Init /\ [][Next]_vars

(***************************************************************************)
(* Archives that were not produced by this write (another version of the   *)
(* library, another tool): read is called on whatever the file holds.      *)
(***************************************************************************)
EmptyJson == [fmt |-> "json", fields |-> <<>>]
ForeignEntries ==
    { Entry(<<Ord("x"), Tag("ndarray")>>, _encode_ndarray(ArrA)),
      Entry(<<Ord("y"), Tag("Future")>>, EmptyJson),
      Entry(<<Ord("x"), Tag("ndarray"), Tag("Future")>>, EmptyJson),
      Entry(<<Ord("x"), Ord("data"), Tag("Future")>>, EmptyJson),
      Entry(<<Ord("x"), Ord("data"), Tag("ndarray")>>, _encode_ndarray(ArrA)),
      Entry(<<Ord("x"), Tag("Signal")>>,
            [fmt |-> "json",
             fields |-> <<<<"state", EncodeGeneric(Tup)>>>>]) }

ForeignArchives ==
    UNION {{s \in [1..n -> ForeignEntries] :
               \A i, k \in 1..n : s[i] = s[k] => i = k} : n \in 0..MaxEntries}

InitForeign ==
    /\ ws = <<>>
    /\ fs = [p \in Paths |-> Absent]
    /\ ret = [op |-> "none"]
    /\ calls = NoCalls

\* an archive is put at a path from outside
Install(filename, compression, entries) ==
    /\ fs' = [fs EXCEPT ![with_suffix(filename)] = ZipFile(compression, entries)]
    /\ ret' = [op |-> "install", filename |-> filename]
    /\ UNCHANGED <<ws, calls>>

NextForeign ==
    \/ \E f \in Filenames, c \in {"STORED", "DEFLATED"}, a \in ForeignArchives :
           Install(f, c, a)
    \/ \E f \in Filenames : Read(f)

SpecForeign == InitForeign /\ [][NextForeign]_vars

(***************************************************************************)
(* A caller that writes one set of objects after the other to the same     *)
(* destination, every call succeeding, and reads in between.  `ws` holds   *)
(* the objects of the most recent write call.                              *)
(***************************************************************************)
\* an aggregate object made by the caller
Wrp == [cat |-> "pyfar", type |-> "BuiltinsWrapper",
        fields |-> <<<<NameY, Tup>>>>]

RewriteValues == {Tup, ArrA, Flt, Wrp}
RewriteWorkspaces ==
    UNION {[S -> RewriteValues] :
              S \in {T \in SUBSET Names : Cardinality(T) <= MaxWriteObjs}}
\* the destination of every call: "d"
Dest == <<"d">>

InitRewrite ==
    /\ ws = <<>>
    /\ fs = [p \in Paths |-> Absent]
    /\ ret = [op |-> "none"]
    /\ calls = NoCalls

\* the caller, process 1, enters write(Dest, compress, **w)
RewriteEnter(w) ==
    /\ calls[1].pc = "idle"
    /\ calls' = [calls EXCEPT ![1] = [pc |-> "write", objs |-> w]]
    /\ UNCHANGED <<fs, ws, ret>>

\* the call runs to its end with the objects encoded into buf, and nothing
\* fails
Rewrite(compress, buf) ==
    /\ calls[1].pc = "write"
    /\ buf.exc = "none"
    /\ ws' = calls[1].objs
    /\ fs' = [fs EXCEPT ![with_suffix(Dest)] =
                 Flush(@, ZipFile(Compression(compress), buf.entries), "ok")]
    /\ ret' = [op |-> "write", filename |-> Dest, compress |-> compress,
               exc |-> "none", msg |-> ""]
    /\ calls' = NoCalls

NextRewrite ==
    \/ \E w \in RewriteWorkspaces : RewriteEnter(w)
    \/ /\ calls[1].pc = "write"
       /\ \E o \in Orders(calls[1].objs), c \in BOOLEAN :
              Rewrite(c, ZipBuffer(Objs(calls[1].objs, o)))
    \/ calls[1].pc = "idle" /\ Read(Dest)

SpecRewrite == InitRewrite /\ [][NextRewrite]_vars

(***************************************************************************)
(* One write call followed statement by statement.  Process 1 makes the    *)
(* call; calls[1] holds its position (pc) and its local variables.         *)
(***************************************************************************)
WriteValues == {Tup, ArrA, FltArr, Dict}
WriteWorkspaces ==
    UNION {[S -> WriteValues] :
              S \in {T \in SUBSET Names : Cardinality(T) <= MaxWriteObjs}}

InitWrite ==
    /\ ws \in WriteWorkspaces
    /\ fs \in {[p \in Paths |-> Absent],
               [p \in Paths |-> IF p = with_suffix(Dest) THEN OldFile
                                ELSE Absent]}
    /\ ret = [op |-> "none"]
    /\ calls = NoCalls

\* zip_buffer = io.BytesIO(); builtin_wrapper = codec.BuiltinsWrapper()
NewBuffer == [exc |-> "none", msg |-> "", entries |-> <<>>, wrapper |-> <<>>]

\* The zip file of the with-block is opened on zip_buffer, which is memory:
\* writing the entries acc to it leaves the files f as they are.  This zip
\* file opened on the destination path instead:
FsDuringEncodeOnDisk(f, path, compress, acc) ==
    [f EXCEPT ![path] = ZipFile(Compression(compress), acc.entries)]

FsDuringEncode(f, path, compress, acc) == f

\* the call is entered: filename and compression are computed, the buffer
\* and the wrapper are created.  `before` keeps the files as they were at
\* this point, for the properties.
WriteEnter(objs, compress) ==
    /\ calls[1].pc = "idle"
    /\ ret.op = "none"
    /\ calls' = [calls EXCEPT ![1] =
                    [pc |-> "loop", filename |-> Dest,
                     path |-> with_suffix(Dest), compress |-> compress,
                     objs |-> objs, i |-> 1, acc |-> NewBuffer,
                     before |-> fs]]
    /\ UNCHANGED <<fs, ws, ret>>

WriteRaised(c, exc, msg) ==
    [op |-> "write", filename |-> c.filename, compress |-> c.compress,
     exc |-> exc, msg |-> msg]

\* one pass of the loop over objs.items(): the next object is classified
\* and encoded, or the TypeError is raised and ends the call
WriteClassify(c, acc) ==
    /\ c.pc = "loop"
    /\ c.i <= Len(c.objs)
    /\ IF acc.exc # "none"
       THEN /\ calls' = [calls EXCEPT ![1] = Idle]
            /\ ret' = WriteRaised(c, acc.exc, acc.msg)
       ELSE /\ calls' = [calls EXCEPT ![1].acc = acc, ![1].i = c.i + 1]
            /\ ret' = ret
    /\ fs' = FsDuringEncode(fs, c.path, c.compress, acc)
    /\ UNCHANGED ws

\* after the loop: the wrapper is encoded if it holds anything, and the
\* with-block of the zip file is left
WriteWrap(c) ==
    /\ c.pc = "loop"
    /\ c.i > Len(c.objs)
    /\ calls' = [calls EXCEPT
                    ![1].acc.entries = @ \o WrapperEntries(c.acc.wrapper),
                    ![1].pc = "open"]
    /\ fs' = FsDuringEncode(fs, c.path, c.compress, calls'[1].acc)
    /\ UNCHANGED <<ws, ret>>

\* open(filename, 'wb'): the file is created, or truncated to length zero
WriteOpen(c, io) ==
    /\ c.pc = "open"
    /\ IF io = "ok"
       THEN /\ fs' = [fs EXCEPT ![c.path] = Truncated]
            /\ calls' = [calls EXCEPT ![1].pc = "write"]
            /\ ret' = ret
       ELSE /\ fs' = fs
            /\ calls' = [calls EXCEPT ![1] = Idle]
            /\ ret' = WriteRaised(c, "OSError", "")
    /\ UNCHANGED ws

\* f.write(zip_buffer.getvalue()), and the call returns
WriteFlush(c, io) ==
    /\ c.pc = "write"
    /\ fs' = [fs EXCEPT ![c.path] =
                 Flush(@, ZipFile(Compression(c.compress), c.acc.entries), io)]
    /\ calls' = [calls EXCEPT ![1] = Idle]
    /\ ret' = WriteRaised(c, IF io = "ok" THEN "none" ELSE "OSError", "")
    /\ UNCHANGED ws

\* the loop body applied to the object the call is at
Classified(c) == WriteStep(c.acc, c.objs[c.i][1], c.objs[c.i][2])

NextWrite ==
    \/ \E o \in Orders(ws), compress \in BOOLEAN :
           WriteEnter(Objs(ws, o), compress)
    \/ /\ calls[1].pc = "loop"
       /\ calls[1].i <= Len(calls[1].objs)
       /\ WriteClassify(calls[1], Classified(calls[1]))
    \/ WriteWrap(calls[1])
    \/ \E io \in IoOutcomes : WriteOpen(calls[1], io)
    \/ \E io \in IoOutcomes : WriteFlush(calls[1], io)

SpecWrite == InitWrite /\ [][NextWrite]_vars

(***************************************************************************)
(* Several processes read the same complete archive at the same time, no   *)
(* writer being active.  calls[p] holds the position of process p in read  *)
(* and its local variables; `ws` holds the objects the archive was written *)
(* from.                                                                   *)
(***************************************************************************)
ReaderValues == {Tup, ArrA, Flt}
\* no object, one object of each kind, two arrays
ReaderWorkspaces ==
    {<<>>} \cup [{NameX} -> ReaderValues] \cup [{NameX, NameY} -> {ArrA}]

InitReaders ==
    /\ ws \in ReaderWorkspaces
    /\ \E o \in Orders(ws), c \in BOOLEAN :
          fs = [p \in Paths |->
                  IF p = with_suffix(Dest)
                  THEN ZipFile(Compression(c), ZipBuffer(Objs(ws, o)).entries)
                  ELSE Absent]
    /\ ret = [op |-> "none"]
    /\ calls = NoCalls

\* f.read() with the file shared by all readers: every read empties it
FsAfterReadConsumes(file) == ZipFile(file.compression, <<>>)

\* the file after open(filename, 'rb') and f.read(): each call reads through
\* a handle of its own, opened for reading only
FsAfterRead(file) == file

\* with open(filename, 'rb') as f
ReadOpen(p) ==
    /\ calls[p].pc = "idle"
    /\ calls' = [calls EXCEPT ![p] =
                   IF fs[with_suffix(Dest)].kind = "absent"
                   THEN [pc |-> "done", filename |-> Dest,
                         result |-> [exc |-> "FileNotFoundError",
                                     value |-> <<>>]]
                   ELSE [pc |-> "open", filename |-> Dest]]
    /\ UNCHANGED <<fs, ws, ret>>

\* zip_buffer = io.BytesIO(); zip_buffer.write(f.read())
ReadBuffer(p) ==
    /\ calls[p].pc = "open"
    /\ calls' = [calls EXCEPT ![p] =
                   [pc |-> "buffered", filename |-> calls[p].filename,
                    zip_buffer |-> fs[with_suffix(calls[p].filename)]]]
    /\ fs' = [fs EXCEPT ![with_suffix(calls[p].filename)] = FsAfterRead(@)]
    /\ UNCHANGED <<ws, ret>>

\* ReadDecode with the archive opened on the file instead of the buffer
ReadDecodeFromFile(p) ==
    /\ calls[p].pc = "buffered"
    /\ calls' = [calls EXCEPT ![p] =
                   [pc |-> "done", filename |-> calls[p].filename,
                    result |-> read(fs[with_suffix(calls[p].filename)])]]
    /\ UNCHANGED <<fs, ws, ret>>

\* the archive is opened on the buffer of the call and decoded into the
\* collection of the call
ReadDecode(p) ==
    /\ calls[p].pc = "buffered"
    /\ calls' = [calls EXCEPT ![p] =
                   [pc |-> "done", filename |-> calls[p].filename,
                    result |-> read(calls[p].zip_buffer)]]
    /\ UNCHANGED <<fs, ws, ret>>

\* return collection, or the exception leaves the call
ReadReturn(p) ==
    /\ calls[p].pc = "done"
    /\ ret' = Returned(calls[p].filename, calls[p].result)
    /\ calls' = [calls EXCEPT ![p] = Idle]
    /\ UNCHANGED <<fs, ws>>

\* the steps of a read call that was entered
ReaderStep(p) == ReadBuffer(p) \/ ReadDecode(p) \/ ReadReturn(p)

NextReaders ==
    \/ \E p \in Procs : ReadOpen(p)
    \/ \E p \in Procs : ReadBuffer(p)
    \/ \E p \in Procs : ReadDecode(p)
    \/ \E p \in Procs : ReadReturn(p)

\* every thread that is inside read is scheduled again
SpecReaders ==
    /\ InitReaders
    /\ [][NextReaders]_vars
    /\ \A p \in Procs : WF_vars(ReaderStep(p))

(***************************************************************************)
(* pyfar.plot.utils.plotstyle(style='light').  `ws` holds the style names  *)
(* of matplotlib.pyplot.style.available, `ret` the outcome of the latest   *)
(* call.                                                                   *)
(***************************************************************************)
StyleNames == <<"classic", "ggplot", "bmh", "fast", "grayscale">>
MplStyles == {StyleNames[i] : i \in 1..MaxStyles}
\* the None argument
NoneArg == "None"
\* the style arguments of a call: None, the pyfar styles, names matplotlib
\* can know and a name nobody knows
StyleArgs == {NoneArg, "light", "dark", "nostyle"} \cup MplStyles

\* mpl.matplotlib_fname()
matplotlib_fname == [file |-> "matplotlibrc"]
\* os.path.join(os.path.dirname(__file__), 'plotstyles', f'{style}.mplstyle')
PyfarStyle(style) ==
    [dir |-> "plotstyles", stem |-> style, suffix |-> ".mplstyle"]

\* The last branch builds a ValueError and drops it: no raise statement.
\* Every path ends in `return style`.
plotstyle(style, available) ==
    IF style = NoneArg
    THEN [exc |-> "none", value |-> matplotlib_fname]
    ELSE IF style \in {"light", "dark"}
    THEN [exc |-> "none", value |-> PyfarStyle(style)]
    ELSE IF style \notin available
    THEN [exc |-> "none", value |-> style]
    ELSE [exc |-> "none", value |-> style]

InitPlot ==
    /\ ws \in SUBSET MplStyles
    /\ fs = [p \in Paths |-> Absent]
    /\ ret = [op |-> "none"]
    /\ calls = NoCalls

Plotstyle(style) ==
    /\ ret' = [op |-> "plotstyle", style |-> style,
               exc |-> plotstyle(style, ws).exc,
               value |-> plotstyle(style, ws).value]
    /\ UNCHANGED <<fs, ws, calls>>

NextPlot == \E style \in StyleArgs : Plotstyle(style)

SpecPlot == InitPlot /\ [][NextPlot]_vars

(***************************************************************************)
(* pyfar.dsp.windowing(signal, window='hann', length=None,                 *)
(* shape='symmetric', unit='samples', truncate=True).  A signal has one    *)
(* channel; its time data is the sequence of its sample indices.  A window *)
(* coefficient records where it comes from; a windowed sample records the  *)
(* sample and the coefficient it was multiplied with.  `ws` holds the      *)
(* arguments of the call, `ret` its outcome.                               *)
(***************************************************************************)
SamplingRates == {1, 2}
Signal(n, sr) ==
    [kind |-> "Signal", n_samples |-> n, sampling_rate |-> sr,
     time |-> [i \in 1..n |-> i - 1]]
\* an argument that is no Signal: dsp.windowing([1., 2.])
NotSignal == [kind |-> "list"]
Signals == {Signal(n, sr) : n \in 1..MaxSamples, sr \in SamplingRates}

\* the argument was left out of the call
NotPassed == "NotPassed"
Shapes == {"symmetric", "left", "right", "top"}
Units == {"samples", "s", "ms", "kg"}
\* True, False, the string 't', or no argument
Truncates == {"True", "False", "t", NotPassed}
\* the truncate parameter of the signature
DefaultTruncate == "True"

\* length values in milliseconds
MsEntries == {500, 1500}
NoLength == [kind |-> "None"]
\* length=1
NotList == [kind |-> "int"]
List(l) == [kind |-> "list", items |-> l]
LengthArgs ==
    {NoLength, NotList}
    \cup {List(l) : l \in [1..0 -> {0}]}
    \cup {List(l) : l \in [1..1 -> 0..MaxSamples]}
    \cup {List(l) : l \in [1..2 -> (-1..MaxSamples) \cup MsEntries]}
    \cup {List(l) : l \in [1..3 -> {0, 1}]}
    \cup {List(l) : l \in [1..4 -> 0..MaxSamples]}

Raised(exc, by, msg) == [exc |-> exc, by |-> by, msg |-> msg, value |-> <<>>]

\* length == sorted(length)
Sorted(l) == \A i, j \in DOMAIN l : i < j => l[i] <= l[j]

\* round(num/den) for den > 0: Python rounds halves to the even neighbour
RoundHalfEven(num, den) ==
    LET q == num \div den
        r == num % den
    IN IF 2 * r < den THEN q
       ELSE IF 2 * r > den THEN q + 1
       ELSE IF q % 2 = 0 THEN q ELSE q + 1

\* Convert length to samples
ToSamples(l, unit, sr) ==
    IF unit = "s" THEN [i \in DOMAIN l |-> l[i] * sr]
    ELSE IF unit = "ms" THEN [i \in DOMAIN l |-> RoundHalfEven(l[i] * sr, 1000)]
    ELSE l

\* sgn.windows.get_window(window, n, fftbins=False): n coefficients
get_window(n) == [k \in 1..n |-> [win |-> "hann", k |-> k, of |-> n]]
OneCoef == [win |-> "one"]
ZeroCoef == [win |-> "zero"]
\* np.ones(n), np.zeros(n)
ones(n) == [k \in 1..n |-> OneCoef]
zeros(n) == [k \in 1..n |-> ZeroCoef]

\* a slice bound of a sequence of n items: negative bounds count from the
\* end, bounds outside the sequence are clipped
SliceBound(i, n) ==
    IF i < 0 THEN (IF i + n < 0 THEN 0 ELSE i + n)
    ELSE IF i > n THEN n ELSE i

\* seq[start:stop]
Slice(seq, start, stop) ==
    SubSeq(seq, SliceBound(start, Len(seq)) + 1, SliceBound(stop, Len(seq)))

\* seq[start:stop] = vals: the values must be as many as the slice holds,
\* or one value that is repeated
SetSlice(seq, start, stop, vals) ==
    LET a == SliceBound(start, Len(seq))
        b == SliceBound(stop, Len(seq))
        n == IF b > a THEN b - a ELSE 0
    IN IF Len(vals) = n
       THEN [ok |-> TRUE,
             value |-> [i \in 1..Len(seq) |->
                          IF a < i /\ i <= b THEN vals[i - a] ELSE seq[i]]]
       ELSE IF Len(vals) = 1
       THEN [ok |-> TRUE,
             value |-> [i \in 1..Len(seq) |->
                          IF a < i /\ i <= b THEN vals[1] ELSE seq[i]]]
       ELSE [ok |-> FALSE, value |-> seq]

\* time * win along the sample axis, with numpy's broadcasting
Multiply(time, win) ==
    IF Len(time) = Len(win)
    THEN [ok |-> TRUE,
          value |-> [i \in 1..Len(time) |-> [s |-> time[i], w |-> win[i]]]]
    ELSE IF Len(win) = 1
    THEN [ok |-> TRUE,
          value |-> [i \in 1..Len(time) |-> [s |-> time[i], w |-> win[1]]]]
    ELSE IF Len(time) = 1
    THEN [ok |-> TRUE,
          value |-> [i \in 1..Len(win) |-> [s |-> time[1], w |-> win[i]]]]
    ELSE [ok |-> FALSE, value |-> <<>>]

Window(win, win_start, win_stop) ==
    [ok |-> TRUE, win |-> win, win_start |-> win_start, win_stop |-> win_stop]
NoWindow == [ok |-> FALSE]

\* LeftWindow with the window ending where the fade ends
LeftWindowToFadeEnd(n, l) ==
    LET fade_samples == 2 * (l[2] - l[1])
        fade == get_window(fade_samples)
        set == SetSlice(ones(n - l[1]), 0, l[2] - l[1],
                        Slice(fade, 0, fade_samples \div 2))
    IN IF set.ok THEN Window(set.value, l[1], l[2]) ELSE NoWindow

\* shape 'left': ones with the first half of the fade at the front
LeftWindow(n, l) ==
    LET fade_samples == 2 * (l[2] - l[1])
        fade == get_window(fade_samples)
        set == SetSlice(ones(n - l[1]), 0, l[2] - l[1],
                        Slice(fade, 0, fade_samples \div 2))
    IN IF set.ok THEN Window(set.value, l[1], n - 1) ELSE NoWindow

\* shape 'right': ones with the second half of the fade at the back
RightWindow(n, l) ==
    LET fade_samples == 2 * (l[2] - l[1])
        fade == get_window(fade_samples)
        set == SetSlice(ones(l[2] + 1), l[1] + 1, l[2] + 1,
                        Slice(fade, fade_samples \div 2, fade_samples))
    IN IF set.ok THEN Window(set.value, 0, l[2]) ELSE NoWindow

\* FourWindow with the fade out starting on the third entry
FourWindowFadeOutEarly(l) ==
    LET fade_in_samples == 2 * (l[2] - l[1])
        fade_in == Slice(get_window(fade_in_samples), 0,
                         fade_in_samples \div 2)
        fade_out_samples == 2 * (l[4] - l[3])
        fade_out == Slice(get_window(fade_out_samples),
                          fade_out_samples \div 2, fade_out_samples)
        set_in == SetSlice(ones(l[4] - l[1] + 1), 0, l[2] - l[1], fade_in)
        set_out == SetSlice(set_in.value, l[3] - l[1], l[4] - l[1],
                            fade_out)
    IN IF set_in.ok /\ set_out.ok
       THEN Window(set_out.value, l[1], l[4])
       ELSE NoWindow

\* four entries: fade in, ones, fade out
FourWindow(l) ==
    LET fade_in_samples == 2 * (l[2] - l[1])
        fade_in == Slice(get_window(fade_in_samples), 0,
                         fade_in_samples \div 2)
        fade_out_samples == 2 * (l[4] - l[3])
        fade_out == Slice(get_window(fade_out_samples),
                          fade_out_samples \div 2, fade_out_samples)
        set_in == SetSlice(ones(l[4] - l[1] + 1), 0, l[2] - l[1], fade_in)
        set_out == SetSlice(set_in.value, l[3] - l[1] + 1, l[4] - l[1] + 1,
                            fade_out)
    IN IF set_in.ok /\ set_out.ok
       THEN Window(set_out.value, l[1], l[4])
       ELSE NoWindow

\* Create window, for a length in samples of two or four entries
CreateWindow(n, l, shape) ==
    IF Len(l) = 2
    THEN IF shape = "symmetric"
         THEN Window(get_window(l[2] - l[1] + 1), l[1], l[2])
         ELSE IF shape = "left" THEN LeftWindow(n, l)
         ELSE RightWindow(n, l)
    ELSE FourWindow(l)

\* the copy of the signal with its time data replaced; obj names the object
\* that is returned
Windowed(signal, time) ==
    [exc |-> "none", by |-> "none", msg |-> "",
     value |-> [kind |-> "Signal", obj |-> "signal_win",
                n_samples |-> Len(time),
                sampling_rate |-> signal.sampling_rate, time |-> time]]

\* Apply window
ApplyWindow(signal, w, truncate) ==
    IF truncate = "True"
    THEN LET product == Multiply(Slice(signal.time, w.win_start,
                                       w.win_stop + 1), w.win)
         IN IF product.ok THEN Windowed(signal, product.value)
            ELSE Raised("ValueError", "numpy", "broadcast")
    ELSE LET window_zeropadded ==
                 SetSlice(zeros(signal.n_samples), w.win_start,
                          w.win_stop + 1, w.win)
         IN IF window_zeropadded.ok
            THEN Windowed(signal,
                          Multiply(signal.time, window_zeropadded.value).value)
            ELSE Raised("ValueError", "numpy", "broadcast")

\* from the check of the window size on, for a length in samples
WindowAndApply(signal, l, shape, truncate) ==
    IF Len(l) = 0 THEN Raised("IndexError", "python", "list index")
    ELSE IF l[Len(l)] > signal.n_samples
    THEN Raised("ValueError", "windowing", "than signal")
    ELSE IF Len(l) \notin {2, 4}
    THEN Raised("UnboundLocalError", "python", "win")
    ELSE IF ~CreateWindow(signal.n_samples, l, shape).ok
    THEN Raised("ValueError", "numpy", "broadcast")
    ELSE ApplyWindow(signal, CreateWindow(signal.n_samples, l, shape),
                     truncate)

\* WindowList without the check of the order of the entries
WindowListAnyOrder(signal, length, shape, unit, truncate) ==
    LET l == IF length = NoLength THEN <<0, signal.n_samples>>
             ELSE length.items
        u == IF length = NoLength THEN "samples" ELSE unit
    IN IF u \notin {"s", "ms", "samples"}
       THEN Raised("ValueError", "windowing", "unit")
       ELSE WindowAndApply(signal, ToSamples(l, u, signal.sampling_rate),
                           shape, truncate)

\* from the replacement of length=None on
WindowList(signal, length, shape, unit, truncate) ==
    LET l == IF length = NoLength THEN <<0, signal.n_samples>>
             ELSE length.items
        u == IF length = NoLength THEN "samples" ELSE unit
    IN IF ~Sorted(l) THEN Raised("ValueError", "windowing", "ascending")
       ELSE IF u \notin {"s", "ms", "samples"}
       THEN Raised("ValueError", "windowing", "unit")
       ELSE WindowAndApply(signal, ToSamples(l, u, signal.sampling_rate),
                           shape, truncate)

\* windowing with the check of shape before the check of signal
windowingShapeFirst(signal, length, shape, unit, truncate) ==
    IF shape \notin {"symmetric", "left", "right"}
    THEN Raised("ValueError", "windowing", "shape")
    ELSE IF signal.kind # "Signal"
    THEN Raised("TypeError", "windowing", "signal")
    ELSE IF truncate \notin {"True", "False"}
    THEN Raised("TypeError", "windowing", "truncate")
    ELSE IF length.kind \notin {"list", "None"}
    THEN Raised("TypeError", "windowing", "length")
    ELSE WindowList(signal, length, shape, unit, truncate)

windowing(signal, length, shape, unit, truncate) ==
    IF signal.kind # "Signal" THEN Raised("TypeError", "windowing", "signal")
    ELSE IF shape \notin {"symmetric", "left", "right"}
    THEN Raised("ValueError", "windowing", "shape")
    ELSE IF truncate \notin {"True", "False"}
    THEN Raised("TypeError", "windowing", "truncate")
    ELSE IF length.kind \notin {"list", "None"}
    THEN Raised("TypeError", "windowing", "length")
    ELSE WindowList(signal, length, shape, unit, truncate)

\* the arguments of a call
WindowingArgs ==
    [signal : Signals \cup {NotSignal}, length : LengthArgs, shape : Shapes,
     unit : Units, truncate : Truncates]

InitDsp ==
    /\ ws \in WindowingArgs
    /\ fs = [p \in Paths |-> Absent]
    /\ ret = [op |-> "none"]
    /\ calls = NoCalls

\* signal_win = signal.copy() without the copy: the time data of the
\* outcome r is assigned to the input
InputAfterAliased(signal, r) ==
    IF r.exc = "none"
    THEN [signal EXCEPT !.time = r.value.time,
                        !.n_samples = r.value.n_samples]
    ELSE signal

\* the input after the call: the time data is assigned to the copy made by
\* signal.copy(), and nothing else is assigned to
InputAfter(signal, r) == signal

\* the call of windowing with the arguments ws ends with the outcome r
Windowing(r) ==
    /\ ret' = [op |-> "windowing", exc |-> r.exc, by |-> r.by,
               msg |-> r.msg, value |-> r.value]
    /\ ws' = [ws EXCEPT !.signal = InputAfter(@, r)]
    /\ UNCHANGED <<fs, calls>>

NextDsp ==
    Windowing(windowing(ws.signal, ws.length, ws.shape, ws.unit,
                        IF ws.truncate = NotPassed THEN DefaultTruncate
                        ELSE ws.truncate))

SpecDsp == InitDsp /\ [][NextDsp]_vars

(***************************************************************************)
(* pyfar.dsp.group_delay(signal, frequencies=None, method='fft').  `ws`    *)
(* holds the arguments of the call, `ret` its outcome.  The group delay is *)
(* recorded by the method that computed it and its number of values.       *)
(***************************************************************************)
Methods == {"fft", "scipy", "invalid", NotPassed}
\* the method parameter of the signature
DefaultMethod == "fft"
NoFrequencies == [kind |-> "None"]
\* frequencies np.asarray(frequencies, dtype=float) cannot convert
TextFrequencies == [kind |-> "str"]
FrequencyArgs ==
    {NoFrequencies, TextFrequencies}
    \cup {[kind |-> "list", items |-> f] : f \in {<<1>>, <<1, 2, 3>>}}

\* signal.n_bins: the number of bins of the spectrum of a real signal
n_bins(signal) == signal.n_samples \div 2 + 1

GroupDelay(method, size) ==
    [exc |-> "none", by |-> "none", msg |-> "",
     value |-> [kind |-> "ndarray", method |-> method, size |-> size]]

\* group_delay without the check of frequencies against the 'fft' method
group_delayAnyFrequencies(signal, frequencies, method) ==
    IF signal.kind # "Signal"
    THEN Raised("TypeError", "group_delay", "signal")
    ELSE IF frequencies = TextFrequencies
    THEN Raised("ValueError", "numpy", "convert")
    ELSE IF method = "scipy"
    THEN GroupDelay(method, IF frequencies = NoFrequencies
                            THEN n_bins(signal)
                            ELSE Len(frequencies.items))
    ELSE IF method = "fft" THEN GroupDelay(method, n_bins(signal))
    ELSE Raised("ValueError", "group_delay", "Invalid method")

group_delay(signal, frequencies, method) ==
    IF signal.kind # "Signal"
    THEN Raised("TypeError", "group_delay", "signal")
    ELSE IF frequencies # NoFrequencies /\ method = "fft"
    THEN Raised("ValueError", "group_delay", "not supported")
    ELSE IF frequencies = TextFrequencies
    THEN Raised("ValueError", "numpy", "convert")
    ELSE IF method = "scipy"
    THEN GroupDelay(method, IF frequencies = NoFrequencies
                            THEN n_bins(signal)
                            ELSE Len(frequencies.items))
    ELSE IF method = "fft" THEN GroupDelay(method, n_bins(signal))
    ELSE Raised("ValueError", "group_delay", "Invalid method")

GroupDelayArgs ==
    [signal : Signals \cup {NotSignal}, frequencies : FrequencyArgs,
     method : Methods]

InitGroupDelay ==
    /\ ws \in GroupDelayArgs
    /\ fs = [p \in Paths |-> Absent]
    /\ ret = [op |-> "none"]
    /\ calls = NoCalls

\* the call of group_delay with the arguments ws ends with the outcome r
GroupDelayCall(r) ==
    /\ ret' = [op |-> "group_delay", exc |-> r.exc, by |-> r.by,
               msg |-> r.msg, value |-> r.value]
    /\ UNCHANGED <<fs, ws, calls>>

NextGroupDelay ==
    GroupDelayCall(group_delay(ws.signal, ws.frequencies,
                               IF ws.method = NotPassed THEN DefaultMethod
                               ELSE ws.method))

SpecGroupDelay == InitGroupDelay /\ [][NextGroupDelay]_vars

(***************************************************************************)
(* pyfar.io.write_audio(signal, filename, subtype=None, overwrite=True).   *)
(* `ws` holds the arguments of the calls, `fs` the file at filename, `ret` *)
(* the outcome of the latest call.  An audio file is recorded by the data, *)
(* the sampling rate and the subtype it was written with.                  *)
(***************************************************************************)
\* the filename of the calls: "a.wav"
AudioPath == <<"a", ".", "w", "a", "v">>

\* write_audio without the check for an existing file
write_audioUnchecked(file, signal, subtype, overwrite) ==
    [exc |-> "none",
     file |-> [kind |-> "audio", data |-> signal.time,
               samplerate |-> signal.sampling_rate,
               subtype |-> IF subtype = "None" THEN "PCM_16" ELSE subtype]]

\* the exception raised and the file left at filename, `file` being there
\* before.  A subtype of None is replaced by default_audio_subtype(format),
\* 'PCM_16' for wav.
write_audio(file, signal, subtype, overwrite) ==
    IF overwrite = "False" /\ file.kind # "absent"
    THEN [exc |-> "FileExistsError", file |-> file]
    ELSE [exc |-> "none",
          file |-> [kind |-> "audio", data |-> signal.time,
                    samplerate |-> signal.sampling_rate,
                    subtype |-> IF subtype = "None" THEN "PCM_16"
                                ELSE subtype]]

WriteAudioArgs ==
    [signal : Signals, subtype : {"None", "PCM_16", "DOUBLE"},
     overwrite : {"True", "False", NotPassed}]

\* nothing at filename, or an audio file of an earlier run
InitAudio ==
    /\ ws \in WriteAudioArgs
    /\ fs \in {[p \in {AudioPath} |-> Absent],
               [p \in {AudioPath} |->
                  [kind |-> "audio", data |-> <<0>>, samplerate |-> 1,
                   subtype |-> "DOUBLE"]]}
    /\ ret = [op |-> "none"]
    /\ calls = NoCalls

\* the call of write_audio with the arguments ws ends with the outcome r
WriteAudio(r) ==
    /\ fs' = [fs EXCEPT ![AudioPath] = r.file]
    /\ ret' = [op |-> "write_audio", exc |-> r.exc]
    /\ UNCHANGED <<ws, calls>>

NextAudio ==
    WriteAudio(write_audio(fs[AudioPath], ws.signal, ws.subtype,
                           IF ws.overwrite = NotPassed THEN "True"
                           ELSE ws.overwrite))

SpecAudio == InitAudio /\ [][NextAudio]_vars

(***************************************************************************)
(* Reads of a file that is absent at first and replaced from outside, also *)
(* while a read is under way.                                              *)
(***************************************************************************)
NextReadFrame ==
    \/ \E c \in {"STORED", "DEFLATED"},
          a \in {e \in ForeignArchives : Len(e) <= 1} : Install(Dest, c, a)
    \/ \E p \in Procs : ReadOpen(p)
    \/ \E p \in Procs : ReadBuffer(p)
    \/ \E p \in Procs : ReadDecode(p)
    \/ \E p \in Procs : ReadReturn(p)

SpecReadFrame == InitForeign /\ [][NextReadFrame]_vars

(***************************************************************************)
(* pyfar.dsp.dsp._cross_fade(first, second, indices).  `ws` holds the      *)
(* arguments of the call, `ret` its outcome.  An array is the sequence of  *)
(* its elements; an element of the result records the two products that    *)
(* were added: each an element of an input and its window coefficient.     *)
(***************************************************************************)
\* _cross_fade with the window of the first array ending in ones
_cross_fadeFirstKept(first, second, indices) ==
    IF Len(first) # Len(second)
    THEN Raised("ValueError", "_cross_fade", "same length")
    ELSE IF \E i \in DOMAIN indices : indices[i] > Len(first)
    THEN Raised("IndexError", "_cross_fade", "out of range")
    ELSE LET len_arrays == Len(first)
             len_xfade == IF indices[2] >= indices[1]
                          THEN indices[2] - indices[1]
                          ELSE indices[1] - indices[2]
             window == get_window(len_xfade * 2 + 1)
             window_rising == Slice(window, 0, len_xfade)
             window_falling == Slice(window, len_xfade + 1, Len(window))
             window_first == ones(indices[1]) \o window_falling
                             \o ones(len_arrays - indices[2])
             window_second == zeros(indices[1]) \o window_rising
                              \o ones(len_arrays - indices[2])
             p1 == Multiply(first, window_first)
             p2 == Multiply(second, window_second)
         IN IF p1.ok /\ p2.ok
            THEN [exc |-> "none", by |-> "none", msg |-> "",
                  value |-> [i \in DOMAIN p1.value |->
                               [a |-> p1.value[i], b |-> p2.value[i]]]]
            ELSE Raised("ValueError", "numpy", "broadcast")

_cross_fade(first, second, indices) ==
    IF Len(first) # Len(second)
    THEN Raised("ValueError", "_cross_fade", "same length")
    ELSE IF \E i \in DOMAIN indices : indices[i] > Len(first)
    THEN Raised("IndexError", "_cross_fade", "out of range")
    ELSE LET len_arrays == Len(first)
             len_xfade == IF indices[2] >= indices[1]
                          THEN indices[2] - indices[1]
                          ELSE indices[1] - indices[2]
             window == get_window(len_xfade * 2 + 1)
             window_rising == Slice(window, 0, len_xfade)
             window_falling == Slice(window, len_xfade + 1, Len(window))
             window_first == ones(indices[1]) \o window_falling
                             \o zeros(len_arrays - indices[2])
             window_second == zeros(indices[1]) \o window_rising
                              \o ones(len_arrays - indices[2])
             p1 == Multiply(first, window_first)
             p2 == Multiply(second, window_second)
         IN IF p1.ok /\ p2.ok
            THEN [exc |-> "none", by |-> "none", msg |-> "",
                  value |-> [i \in DOMAIN p1.value |->
                               [a |-> p1.value[i], b |-> p2.value[i]]]]
            ELSE Raised("ValueError", "numpy", "broadcast")

\* two arrays of 1 .. MaxSamples elements and two indices
InitCrossFade ==
    /\ ws \in [first : {[i \in 1..n |-> [x |-> "first", i |-> i - 1]] :
                          n \in 1..MaxSamples},
               second : {[i \in 1..n |-> [x |-> "second", i |-> i - 1]] :
                           n \in 1..MaxSamples},
               indices : [1..2 -> 0..(MaxSamples + 1)]]
    /\ fs = [p \in Paths |-> Absent]
    /\ ret = [op |-> "none"]
    /\ calls = NoCalls

\* the call of _cross_fade with the arguments ws ends with the outcome r
CrossFade(r) ==
    /\ ret' = [op |-> "_cross_fade", exc |-> r.exc, by |-> r.by,
               msg |-> r.msg, value |-> r.value]
    /\ UNCHANGED <<fs, ws, calls>>

NextCrossFade == CrossFade(_cross_fade(ws.first, ws.second, ws.indices))

SpecCrossFade == InitCrossFade /\ [][NextCrossFade]_vars

(***************************************************************************)
(* Properties.                                                             *)
(***************************************************************************)
\* the path the latest call was given, after with_suffix
RetPath == with_suffix(ret.filename)

Supported(v) ==
    \/ _is_pyfar_type(v)
    \/ _is_numpy_type(v)
    \/ (v.cat = "builtin" /\ TypeOf(v) \in _supported_builtin_types)

\* the archives write produces from the objects ws, in any order and mode
WritesOf(w) ==
    {ZipFile(Compression(c), ZipBuffer(Objs(w, o)).entries) :
        c \in BOOLEAN, o \in Orders(w)}

EndsWithFar(name) ==
    /\ Len(name) >= Len(FarSuffix)
    /\ SubSeq(name, Len(name) - Len(FarSuffix) + 1, Len(name)) = FarSuffix
\* the destination with '.far' appended unless it already ends with it
AppendFar(name) == IF EndsWithFar(name) THEN name ELSE name \o FarSuffix

\* the type tag of an entry: its terminal segment, when '$'-prefixed
UnknownTag(e) ==
    LET last == e.path[Len(e.path)]
    IN /\ Len(e.path) >= 2
       /\ last.d
       /\ ~_is_pyfar_type_name(last.id)
       /\ last # Tag("ndarray")

\* C1: a single supported object written under any name other than
\* 'builtin_wrapper' is read back under that name with an equal value.
C1_RoundTrip ==
    (/\ ret.op = "read"
     /\ Cardinality(DOMAIN ws) = 1
     /\ fs[RetPath] \in WritesOf(ws)
     /\ \A n \in DOMAIN ws : n # NameWrapper /\ Supported(ws[n]))
    => /\ ret.exc = "none"
       /\ \A n \in DOMAIN ws : n \in DOMAIN ret.value /\ ret.value[n] = ws[n]

\* C2: a write call with an object named 'builtin_wrapper' raises an error
\* before the destination is opened: it neither completes nor reaches the
\* flush.
C2_NameCollisionRejected ==
    (ret.op = "write" /\ NameWrapper \in DOMAIN ws)
    => ret.exc \notin {"none", "OSError"}

\* C3: a write call with an unsupported object, at any position, raises a
\* TypeError naming that object's type and leaves every file as it was.
C3_UnsupportedRejected ==
    [][(ret'.op = "write" /\ \E n \in DOMAIN ws : ~Supported(ws[n]))
       => /\ ret'.exc = "TypeError"
          /\ ret'.msg \in {TypeOf(ws[n]) : n \in {m \in DOMAIN ws : ~Supported(ws[m])}}
          /\ fs' = fs]_vars

C3_Witness ==
    /\ ret.op = "write"
    /\ ret.exc = "TypeError"
    /\ ret.msg = "dict"
    /\ Cardinality(DOMAIN ws) = 3
    /\ fs[RetPath] = OldFile

\* C4: compress=True stores the entries deflated, compress=False stored.
C4_CompressFlag ==
    (ret.op = "write" /\ ret.exc = "none")
    => fs[RetPath].compression = (IF ret.compress THEN "DEFLATED" ELSE "STORED")

\* C5: a write call leaves the destination with its complete previous
\* content or with a complete archive, also when the flush fails.
C5_AtomicFlush ==
    [][ret'.op = "write"
       => \/ fs'[with_suffix(ret'.filename)] = fs[with_suffix(ret'.filename)]
          \/ fs'[with_suffix(ret'.filename)].kind = "zip"]_vars

\* the keys of the aggregate an archive holds
AggregateKeys(file) ==
    LET w == _decode_object_json_aided(NameWrapper, Tag("BuiltinsWrapper"),
                                       file.entries)
    IN IF w.cat = "wrapper" THEN DOMAIN w.map ELSE {}

\* C6: a read of an archive produced by write that returns normally returns
\* a mapping without the key 'builtin_wrapper' that has every key of the
\* aggregate.
C6_AggregateTransparency ==
    (ret.op = "read" /\ ret.exc = "none" /\ fs[RetPath] \in WritesOf(ws))
    => /\ NameWrapper \notin DOMAIN ret.value
       /\ AggregateKeys(fs[RetPath]) \subseteq DOMAIN ret.value

\* C7: a successful write puts the archive at the destination with '.far'
\* appended, or at the destination itself when it ends with '.far'.
C7_ExtensionAppended ==
    (ret.op = "write" /\ ret.exc = "none")
    => fs[AppendFar(ret.filename)] \in WritesOf(ws)

\* C8: read raises, and returns no mapping, whenever the archive holds an
\* entry whose type tag is neither a pyfar type nor '$ndarray'.
C8_UnknownTagRaises ==
    (/\ ret.op = "read"
     /\ fs[RetPath].kind = "zip"
     /\ \E i \in DOMAIN fs[RetPath].entries : UnknownTag(fs[RetPath].entries[i]))
    => ret.exc # "none" /\ ret.value = <<>>

C10_OrderIndependence ==
    (ret.op = "read" /\ ret.exc = "none" /\ fs[RetPath] \in WritesOf(ws))
    => \A a \in WritesOf(ws) :
          read(a).exc = "none" /\ read(a).value = ret.value

C10_Witness ==
    /\ ret.op = "read"
    /\ ret.exc = "none"
    /\ {ws[n].cat : n \in DOMAIN ws} = {"pyfar", "ndarray", "builtin"}
    /\ DOMAIN ret.value = DOMAIN ws
    /\ \E a \in WritesOf(ws) : a.entries # fs[RetPath].entries

\* C11: a read after any sequence of successful write calls to one
\* destination returns a mapping whose keys are exactly the names of the
\* objects of the most recent write call.
C11_FullRewrite ==
    (ret.op = "read" /\ fs[RetPath].kind = "zip")
    => /\ ret.exc = "none"
       /\ DOMAIN ret.value = DOMAIN ws

\* C15: in the archive a successful write call leaves at the destination,
\* no two entries have the same full path.
C15_EntryPathsUnique ==
    (ret.op = "write" /\ ret.exc = "none")
    => \A i, k \in DOMAIN fs[RetPath].entries :
          fs[RetPath].entries[i].path = fs[RetPath].entries[k].path => i = k

\* the archive a write call of the objects objs leaves when it succeeds
CompleteArchive(c) ==
    ZipFile(Compression(c.compress), ZipBuffer(c.objs).entries)

\* C12: in a write call, a file changes only after every object was
\* classified and encoded into the buffer; the archive gets to the
\* destination in one step, complete, and that step ends a successful
\* call; a call that raises while classifying or encoding leaves every
\* file as it was when the call was entered.
C12_WriteOrdering ==
    [][/\ fs' # fs
          => /\ calls[1].pc \in {"open", "write"}
             /\ calls[1].acc = ZipBuffer(calls[1].objs)
       /\ \A p \in Paths :
             (fs'[p] # fs[p] /\ fs'[p].kind = "zip")
             => /\ calls[1].pc = "write"
                /\ p = calls[1].path
                /\ fs'[p] = CompleteArchive(calls[1])
                /\ ret'.op = "write" /\ ret'.exc = "none"
       /\ (ret' # ret /\ ret'.exc = "none")
             => fs'[calls[1].path] = CompleteArchive(calls[1])
       /\ (ret' # ret /\ ret'.exc = "TypeError")
             => fs' = calls[1].before]_vars

C12_Witness ==
    /\ ret.op = "write"
    /\ ret.exc = "none"
    /\ Cardinality(DOMAIN ws) = 2
    /\ fs[RetPath] \in WritesOf(ws)
    /\ \E n \in DOMAIN ws : ws[n].cat = "builtin"

\* the first of the tests composite, array, supported builtin that obj passes
FirstMatch(obj) ==
    IF _is_pyfar_type(obj) THEN "composite"
    ELSE IF _is_numpy_type(obj) THEN "array"
    ELSE IF obj.cat = "builtin" /\ TypeOf(obj) \in _supported_builtin_types
    THEN "builtin"
    ELSE "unsupported"

\* the paths that handled the object a call c was at, seen from what the
\* pass of the loop did: c2 is the call and r2 the outcome after the pass
PathsTaken(c, c2, r2) ==
    LET name == c.objs[c.i][1]
        own == name \o <<Tag(TypeOf(c.objs[c.i][2]))>>
        new == IF c2.pc = "loop"
               THEN SubSeq(c2.acc.entries, Len(c.acc.entries) + 1,
                           Len(c2.acc.entries))
               ELSE <<>>
        Wrote(fmt) == \E k \in DOMAIN new :
                         new[k].path = own /\ new[k].payload.fmt = fmt
    IN {t \in {"composite"} : Wrote("json")}
       \cup {t \in {"array"} : Wrote("npy")}
       \cup {t \in {"builtin"} :
                c2.pc = "loop" /\ Len(c2.acc.wrapper) > Len(c.acc.wrapper)}
       \cup {t \in {"unsupported"} : c2.pc = "idle" /\ r2.exc = "TypeError"}

\* C13: every object of a write call is handled by exactly one of the
\* paths composite, array, builtin, unsupported: the one of the first test
\* it passes, in this order.
C13_ClassificationPriority ==
    [][(calls[1].pc = "loop" /\ calls[1].i <= Len(calls[1].objs))
       => PathsTaken(calls[1], calls'[1], ret')
            = {FirstMatch(calls[1].objs[calls[1].i][2])}]_vars

C13_Witness ==
    /\ calls[1].pc = "loop"
    /\ calls[1].i = 2
    /\ calls[1].objs[1][2] = FltArr
    /\ Len(calls[1].acc.entries) = 1
    /\ calls[1].acc.entries[1].payload.fmt = "json"

\* the path of the aggregate entry
AggregatePath == NameWrapper \o <<Tag("BuiltinsWrapper")>>
\* the positions of the aggregate entries of an archive
AggregateEntries(file) ==
    {i \in DOMAIN file.entries : file.entries[i].path = AggregatePath}
\* the names of the objects of a supported builtin kind
BuiltinNames(w) ==
    {n \in DOMAIN w :
        w[n].cat = "builtin" /\ TypeOf(w[n]) \in _supported_builtin_types}
\* path is the name followed by one type tag
IsEntryOf(name, path) ==
    /\ Len(path) = Len(name) + 1
    /\ SubSeq(path, 1, Len(name)) = name
    /\ path[Len(path)].d

\* C14: the archive of a successful write call has one aggregate entry
\* when an object of the call is of a supported builtin kind and none
\* otherwise; the keys of the aggregate are the names of those objects, and
\* no other entry is an entry of one of them.
C14_SingleAggregate ==
    (ret.op = "write" /\ ret.exc = "none")
    => /\ Cardinality(AggregateEntries(fs[RetPath]))
            = (IF BuiltinNames(ws) # {} THEN 1 ELSE 0)
       /\ AggregateKeys(fs[RetPath]) = BuiltinNames(ws)
       /\ \A n \in BuiltinNames(ws) :
             \A i \in DOMAIN fs[RetPath].entries \ AggregateEntries(fs[RetPath]) :
                ~IsEntryOf(n, fs[RetPath].entries[i].path)

\* the terminal segment of an entry path is a type tag read knows
KnownTag(e) ==
    LET last == e.path[Len(e.path)]
    IN /\ last.d
       /\ (last = Tag("ndarray") \/ _is_pyfar_type_name(last.id))
\* the segments between the object name and the type tag are field names
NestedByName(e) == \A i \in 1..(Len(e.path) - 1) : ~e.path[i].d

\* C16: read selects the decoder of an entry from the terminal type tag of
\* its path and attributes the entry to its first segment, also when
\* segments lie between the two: on an archive whose entries all end in a
\* known type tag, read finds no unknown type, and the keys it returns are
\* the first segments of the entry paths.
C16_DecoderByTerminalTag ==
    (/\ ret.op = "read"
     /\ fs[RetPath].kind = "zip"
     /\ \A i \in DOMAIN fs[RetPath].entries :
           /\ KnownTag(fs[RetPath].entries[i])
           /\ NestedByName(fs[RetPath].entries[i]))
    => /\ ret.exc # "TypeError"
       /\ ret.exc = "none"
            => DOMAIN ret.value = {<<fs[RetPath].entries[i].path[1]>> :
                                     i \in DOMAIN fs[RetPath].entries}

\* the steps of concurrent reads: no step changes the file, a call that
\* finishes holds the outcome of a single read of the file, and the calls
\* that have finished hold equal outcomes
ReadersAgree ==
    /\ fs' = fs
    /\ \A p \in Procs :
          (calls[p].pc # "done" /\ calls'[p].pc = "done")
          => calls'[p].result = read(fs[with_suffix(Dest)])
    /\ \A p, q \in Procs :
          (calls'[p].pc = "done" /\ calls'[q].pc = "done")
          => calls'[p].result = calls'[q].result

\* C17: read calls that run at the same time on a complete archive no
\* writer touches all terminate, each with the outcome of a single
\* sequential read of the archive, and no read changes the file another
\* read observes.
C17_ConcurrentReads ==
    /\ [][ReadersAgree]_vars
    /\ \A p \in Procs : (calls[p].pc = "open") ~> (calls[p].pc = "done")

\* two calls are between their first and last step at once, one of them
\* having copied a file of at least one entry that the other has yet to copy
C17_Witness ==
    \E p, q \in Procs :
        /\ calls[p].pc = "done"
        /\ calls[p].result.exc = "none"
        /\ DOMAIN calls[p].result.value # {}
        /\ calls[q].pc = "open"

\* C18: plotstyle raises a ValueError for every style that is not None,
\* not 'light', not 'dark' and not a name of matplotlib's available styles;
\* it returns a value only for the known styles.
C18_UnknownStyleRaises ==
    ret.op = "plotstyle"
    => (ret.exc = "ValueError"
        <=> ret.style \notin ({NoneArg, "light", "dark"} \cup ws))

\* the signal windowed with a symmetric window over all its samples
WholeSignalWindowed(signal) ==
    [kind |-> "Signal", obj |-> "signal_win",
     n_samples |-> signal.n_samples,
     sampling_rate |-> signal.sampling_rate,
     time |-> [i \in 1..signal.n_samples |->
                 [s |-> signal.time[i], w |-> get_window(signal.n_samples)[i]]]]

\* C19: windowing with length=None applies a symmetric window over the
\* overall length of the signal, whatever shape and unit are: the call
\* succeeds, the window covers the samples 0 .. n_samples-1, and the
\* returned signal has n_samples samples.
C19_DefaultLength ==
    (/\ ret.op = "windowing"
     /\ ws.signal.kind = "Signal"
     /\ ws.length = NoLength
     /\ ws.shape \in {"symmetric", "left", "right"}
     /\ ws.truncate \in {"True", "False", NotPassed})
    => /\ ret.exc = "none"
       /\ ret.value = WholeSignalWindowed(ws.signal)

\* C20: the default of truncate is False: a call that does not pass
\* truncate ends as the same call with truncate=False does, and a signal it
\* returns has as many samples as the input.
C20_TruncateDefaultFalse ==
    (ret.op = "windowing" /\ ws.truncate = NotPassed)
    => /\ ret.exc
            = windowing(ws.signal, ws.length, ws.shape, ws.unit, "False").exc
       /\ ret.value
            = windowing(ws.signal, ws.length, ws.shape, ws.unit, "False").value
       /\ ret.exc = "none" => ret.value.n_samples = ws.signal.n_samples

\* the call is made on a Signal with a valid shape, a truncate that was
\* passed as a bool, a valid unit and a list of k entries in ascending order
ListCall(w, k) ==
    /\ w.signal.kind = "Signal"
    /\ w.shape \in {"symmetric", "left", "right"}
    /\ w.truncate \in {"True", "False"}
    /\ w.unit \in {"samples", "s", "ms"}
    /\ w.length.kind = "list"
    /\ Len(w.length.items) = k
    /\ Sorted(w.length.items)

\* the entries of length in samples
InSamples(w) == ToSamples(w.length.items, w.unit, w.signal.sampling_rate)
First(l) == l[1]
Last(l) == l[Len(l)]

\* the number of samples the two-entry call is to return
TwoEntrySamples(w) ==
    IF w.truncate = "False" THEN w.signal.n_samples
    ELSE IF w.shape = "symmetric"
    THEN Last(InSamples(w)) - First(InSamples(w)) + 1
    ELSE IF w.shape = "left" THEN w.signal.n_samples - First(InSamples(w))
    ELSE Last(InSamples(w)) + 1

CheckedListCall(w) ==
    /\ w.signal.kind = "Signal"
    /\ w.shape \in {"symmetric", "left", "right"}
    /\ w.truncate \in {"True", "False", NotPassed}
    /\ w.length.kind = "list"

\* each entry is at most its successor
Ascending(l) == \A i \in DOMAIN l : i < Len(l) => l[i] <= l[i + 1]

\* the call raised the ValueError of windowing with message msg and
\* returned nothing
RaisedValueError(msg) ==
    /\ ret.exc = "ValueError"
    /\ ret.by = "windowing"
    /\ ret.msg = msg
    /\ ret.value = <<>>

\* C22: windowing raises ValueError when the entries of a length of two or
\* of four entries are not in ascending order, and raises ValueError when
\* the last entry, converted from its unit to samples, exceeds the number
\* of samples of the signal; no Signal is returned in either case.
C22_RangeChecks ==
    (ret.op = "windowing" /\ CheckedListCall(ws))
    => /\ (Len(ws.length.items) \in {2, 4} /\ ~Ascending(ws.length.items))
            => RaisedValueError("ascending")
       /\ (/\ Len(ws.length.items) > 0
           /\ Ascending(ws.length.items)
           /\ ws.unit \in {"samples", "s", "ms"}
           /\ Last(InSamples(ws)) > ws.signal.n_samples)
            => RaisedValueError("than signal")

\* a call with four entries out of order has raised
C22_Witness ==
    /\ ret.op = "windowing"
    /\ CheckedListCall(ws)
    /\ Len(ws.length.items) = 4
    /\ ws.length.items[2] > ws.length.items[3]
    /\ ws.length.items[1] <= ws.length.items[4]
    /\ RaisedValueError("ascending")

\* the call raised exception exc of windowing with message msg
RaisedOwn(exc, msg) ==
    /\ ret.exc = exc
    /\ ret.by = "windowing"
    /\ ret.msg = msg
    /\ ret.value = <<>>

BadSignal(w) == w.signal.kind # "Signal"
BadShape(w) == w.shape \notin {"symmetric", "left", "right"}
BadTruncate(w) == w.truncate \notin {"True", "False", NotPassed}
BadLength(w) == w.length.kind \notin {"list", "None"}
BadUnit(w) == w.unit \notin {"samples", "s", "ms"}

\* the checks of signal, shape, truncate and length, the first violated one
\* deciding
TypeChecksInOrder ==
    /\ BadSignal(ws) => RaisedOwn("TypeError", "signal")
    /\ (~BadSignal(ws) /\ BadShape(ws)) => RaisedOwn("ValueError", "shape")
    /\ (~BadSignal(ws) /\ ~BadShape(ws) /\ BadTruncate(ws))
         => RaisedOwn("TypeError", "truncate")
    /\ (~BadSignal(ws) /\ ~BadShape(ws) /\ ~BadTruncate(ws) /\ BadLength(ws))
         => RaisedOwn("TypeError", "length")

\* no check before the check of unit is violated
UnitCheckReached(w) ==
    ~BadSignal(w) /\ ~BadShape(w) /\ ~BadTruncate(w) /\ ~BadLength(w)

\* C23 as stated: a non-Signal input raises TypeError, an invalid shape
\* ValueError, a non-bool truncate TypeError, a length that is neither a
\* list nor None TypeError, and an invalid unit ValueError, the first
\* violated check deciding the error.
C23_ValidationAsStated ==
    ret.op = "windowing"
    => /\ TypeChecksInOrder
       /\ (UnitCheckReached(ws) /\ BadUnit(ws)) => ret.exc = "ValueError"

\* C23, amended: as stated for signal, shape, truncate and length; an
\* invalid unit raises ValueError when length is a list, the ValueError of
\* the order check coming first when the list is out of order; with
\* length=None the unit is not looked at.
C23_Validation ==
    ret.op = "windowing"
    => /\ TypeChecksInOrder
       /\ (UnitCheckReached(ws) /\ BadUnit(ws) /\ ws.length.kind = "list")
            => IF Ascending(ws.length.items)
               THEN RaisedOwn("ValueError", "unit")
               ELSE RaisedOwn("ValueError", "ascending")
       /\ (UnitCheckReached(ws) /\ BadUnit(ws) /\ ws.length = NoLength)
            => ~(ret.by = "windowing" /\ ret.msg = "unit")

\* a call that violates the checks of shape, truncate, length and unit at
\* once has raised the error of the shape
C23_Witness ==
    /\ ret.op = "windowing"
    /\ ~BadSignal(ws)
    /\ BadShape(ws)
    /\ BadTruncate(ws)
    /\ BadLength(ws)
    /\ BadUnit(ws)
    /\ RaisedOwn("ValueError", "shape")

\* the window value at sample index idx for the four entries l: zero
\* outside, the rising half of a window of twice the fade length on
\* l[1] .. l[2]-1, one on l[2] .. l[3], the falling half on l[3]+1 .. l[4]
FourEntryCoef(l, idx) ==
    IF idx < l[1] \/ idx > l[4] THEN ZeroCoef
    ELSE IF idx < l[2]
    THEN [win |-> "hann", k |-> idx - l[1] + 1, of |-> 2 * (l[2] - l[1])]
    ELSE IF idx <= l[3] THEN OneCoef
    ELSE [win |-> "hann", k |-> (l[4] - l[3]) + (idx - l[3]),
          of |-> 2 * (l[4] - l[3])]

\* a call with four ascending entries in samples, the last one below
\* n_samples, and truncate=False
FourEntryCall(w) ==
    /\ ListCall(w, 4)
    /\ w.unit = "samples"
    /\ w.truncate = "False"
    /\ Last(w.length.items) < w.signal.n_samples

\* C24: windowing with four entries [a, b, c, d] in samples, ascending,
\* d < n_samples, and truncate=False returns a signal of unchanged length
\* whose samples below a and above d are zero, whose samples b .. c are
\* unchanged, and whose samples a .. b-1 and c+1 .. d carry the fade-in and
\* the fade-out half of the window.
C24_FourEntryWindow ==
    (ret.op = "windowing" /\ FourEntryCall(ws))
    => /\ ret.exc = "none"
       /\ ret.value.n_samples = ws.signal.n_samples
       /\ ret.value.time =
            [i \in 1..ws.signal.n_samples |->
               [s |-> ws.signal.time[i],
                w |-> FourEntryCoef(ws.length.items, ws.signal.time[i])]]

\* a call whose window starts after the first sample and has a fade in and
\* a fade out has returned
C24_Witness ==
    /\ ret.op = "windowing"
    /\ FourEntryCall(ws)
    /\ 0 < ws.length.items[1]
    /\ ws.length.items[1] < ws.length.items[2]
    /\ ws.length.items[3] < ws.length.items[4]
    /\ ret.exc = "none"

\* C25: group_delay raises TypeError for an input that is no Signal; for a
\* Signal it raises ValueError when method is neither 'scipy' nor 'fft',
\* and when frequencies is given together with the method 'fft', passed or
\* left at its default.  No result is returned in any of these cases.
C25_GroupDelayErrors ==
    ret.op = "group_delay"
    => /\ ws.signal.kind # "Signal"
            => (ret.exc = "TypeError" /\ ret.value = <<>>)
       /\ (ws.signal.kind = "Signal" /\ ws.method = "invalid")
            => (ret.exc = "ValueError" /\ ret.value = <<>>)
       /\ (/\ ws.signal.kind = "Signal"
           /\ ws.frequencies # NoFrequencies
           /\ ws.method \in {"fft", NotPassed})
            => (ret.exc = "ValueError" /\ ret.value = <<>>)

\* a call on a Signal that gives a list of frequencies and no method has
\* raised
C25_Witness ==
    /\ ret.op = "group_delay"
    /\ ws.signal.kind = "Signal"
    /\ ws.frequencies.kind = "list"
    /\ ws.method = NotPassed
    /\ ret.exc = "ValueError"
    /\ ret.msg = "not supported"

\* the audio file of the signal of the call
WrittenAudio(w) ==
    [kind |-> "audio", data |-> w.signal.time,
     samplerate |-> w.signal.sampling_rate,
     subtype |-> IF w.subtype = "None" THEN "PCM_16" ELSE w.subtype]

\* a call of write_audio: it raises FileExistsError and leaves the file when
\* overwrite is False and a file is there, and writes the file otherwise
WriteAudioStep ==
    ret'.op = "write_audio"
    => IF ws.overwrite = "False" /\ fs[AudioPath] # Absent
       THEN ret'.exc = "FileExistsError" /\ fs' = fs
       ELSE ret'.exc = "none" /\ fs'[AudioPath] = WrittenAudio(ws)

\* C26: write_audio with overwrite=False raises FileExistsError when a file
\* exists at filename and leaves that file unchanged; with overwrite=True,
\* passed or by default, or when no file exists, the audio file is written.
C26_WriteAudioOverwrite == [][WriteAudioStep]_vars

\* a call with overwrite=False has raised and the file of the earlier run
\* is still there
C26_Witness ==
    /\ ret.op = "write_audio"
    /\ ret.exc = "FileExistsError"
    /\ ws.overwrite = "False"
    /\ fs[AudioPath].kind = "audio"
    /\ fs[AudioPath] # WrittenAudio(ws)

\* the call passes every input check of windowing on a list of two or four
\* entries, so that a window is created and applied
ReachesApplication(w) ==
    /\ CheckedListCall(w)
    /\ Len(w.length.items) \in {2, 4}
    /\ Ascending(w.length.items)
    /\ ~BadUnit(w)
    /\ Last(InSamples(w)) <= w.signal.n_samples

\* the window has one value for each sample of win_start .. win_stop, which
\* are samples of the signal
WindowFits(window, n) ==
    /\ window.ok
    /\ 0 <= window.win_start
    /\ window.win_start <= window.win_stop
    /\ window.win_stop <= n - 1
    /\ Len(window.win) = window.win_stop - window.win_start + 1

\* C27: windowing never fails past its own input checks: on a Signal and a
\* list as length it raises one of its own input errors or returns a
\* Signal, and whenever the window is applied, it lies within the signal
\* and has one value for each of its samples.
C27_NoFailurePastChecks ==
    (ret.op = "windowing" /\ CheckedListCall(ws))
    => /\ \/ (ret.by = "windowing" /\ ret.exc \in {"TypeError", "ValueError"})
          \/ (ret.exc = "none" /\ ret.value.kind = "Signal")
       /\ ReachesApplication(ws)
            => WindowFits(CreateWindow(ws.signal.n_samples, InSamples(ws),
                                       ws.shape),
                          ws.signal.n_samples)

\* a call of windowing leaves its input as it was and returns another
\* object
WindowingKeepsInput ==
    ret'.op = "windowing"
    => /\ ws'.signal = ws.signal
       /\ ret'.exc = "none" => ret'.value.obj = "signal_win"

ReadStepFrame(p) ==
    calls'[p] # calls[p]
    => /\ fs' = fs
       /\ calls'[p].pc = "buffered"
            => calls'[p].zip_buffer = fs[with_suffix(Dest)]
       /\ calls'[p].pc = "done"
            => calls'[p].result = read(IF calls[p].pc = "buffered"
                                       THEN calls[p].zip_buffer
                                       ELSE fs[with_suffix(Dest)])
       /\ calls'[p].pc = "idle"
            => (ret'.exc = calls[p].result.exc
                /\ ret'.value = calls[p].result.value)

\* C29: read has no effect on the file system: no step of a read call,
\* returning or raising, creates, changes or removes a file, and the
\* mapping it returns is the one decoded from the bytes the file held when
\* the call read it.
C29_ReadFrame == [][\A p \in Procs : ReadStepFrame(p)]_vars

\* a read has returned the objects of an archive that was replaced by
\* another one after the call had read it
C29_Witness ==
    /\ ret.op = "read"
    /\ ret.exc = "none"
    /\ DOMAIN ret.value # {}
    /\ fs[with_suffix(Dest)].kind = "zip"
    /\ read(fs[with_suffix(Dest)]).exc # "none"

\* the element of the result is element x of the array kept and nothing of
\* element y of the other array
Kept(e, x, y) ==
    /\ e.a.s = x /\ e.a.w = OneCoef
    /\ e.b.s = y /\ e.b.w = ZeroCoef
KeptSecond(e, x, y) ==
    /\ e.a.s = x /\ e.a.w = ZeroCoef
    /\ e.b.s = y /\ e.b.w = OneCoef

\* C30: _cross_fade(first, second, [i0, i1]) with two arrays of equal
\* length n and 0 <= i0 < i1 <= n returns an array of length n whose
\* elements at positions < i0 are those of first and whose elements at
\* positions >= i1 are those of second; arrays of different length raise
\* ValueError and, for arrays of equal length, an index greater than n
\* raises IndexError.
C30_CrossFade ==
    ret.op = "_cross_fade"
    => /\ (/\ Len(ws.first) = Len(ws.second)
           /\ ws.indices[1] < ws.indices[2]
           /\ ws.indices[2] <= Len(ws.first))
            => /\ ret.exc = "none"
               /\ Len(ret.value) = Len(ws.first)
               /\ \A i \in DOMAIN ret.value :
                    /\ i <= ws.indices[1]
                         => Kept(ret.value[i], ws.first[i], ws.second[i])
                    /\ i > ws.indices[2]
                         => KeptSecond(ret.value[i], ws.first[i],
                                       ws.second[i])
       /\ Len(ws.first) # Len(ws.second)
            => (ret.exc = "ValueError" /\ ret.value = <<>>)
       /\ (/\ Len(ws.first) = Len(ws.second)
           /\ \E k \in DOMAIN ws.indices : ws.indices[k] > Len(ws.first))
            => (ret.exc = "IndexError" /\ ret.value = <<>>)

\* a call whose cross-fade starts after the first element and ends before
\* the last one has returned
C30_Witness ==
    /\ ret.op = "_cross_fade"
    /\ ret.exc = "none"
    /\ 0 < ws.indices[1]
    /\ ws.indices[1] < ws.indices[2]
    /\ ws.indices[2] < Len(ws.first)
    /\ Len(ret.value) = Len(ws.first)

====
